---- MODULE Spec2Model ----
(***************************************************************************)
(* Model of the sale transaction path of pos_app.py (Stellar Official POS) *)
(*                                                                         *)
(* Every operator session runs new_sale_page / products_page top to bottom *)
(* on each button click, with its own sqlite3 connection (get_conn) and    *)
(* its own st.session_state.  The tables below are the committed content   *)
(* of pos.db; `tx` is the one open write transaction (sqlite3 opens it     *)
(* implicitly before the first INSERT/UPDATE and holds the write lock      *)
(* until conn.commit() or until the connection is dropped).  SELECTs are   *)
(* single statements outside any transaction: they read committed data.    *)
(* Money is counted in whole units; the clock is counted in seconds, the   *)
(* resolution of the invoice number's strftime('%Y%m%d%H%M%S').            *)
(***************************************************************************)
EXTENDS Integers, Sequences, FiniteSets, TLC

\* ---------------------------------------------------------------- bounds
MaxStock    == 1   \* largest stock a product is seeded or saved with
MaxQty      == 2   \* largest "Qty to add" entered and largest quantity a cart line accumulates
MaxDiscount == 3   \* largest discount entered
MaxConfirms == 2   \* cap on the number of times "Confirm & Generate Invoice" is pressed
MaxClock    == 1   \* the clock runs over seconds 0..MaxClock
MaxEdits    == 1   \* cap on the number of product saves and deletes
MaxUiOps    == 4   \* cap on the number of selections and cart changes (select, add, remove, clear, done, new sale)

Sessions  == {"admin", "cashier"}
Codes     == {"C001", "M001"}
Discounts == {0, MaxDiscount}   \* "Discount (PKR)" entered at confirm
SavePrices == {4}                \* "Sell Price" entered at Save Product
SaveCosts  == {3}                \* "Cost Price" entered at Save Product

\* ------------------------------------------------------------ the state
VARIABLES
    products,          \* table products: code -> [price, cost_price, stock]; DOMAIN = rows present
    customers,         \* table customers: sequence of rows, id = index
    sales,             \* table sales: sequence of rows, id = index
    sale_items,        \* table sale_items: sequence of rows, id = index
    tx,                \* <<>> or <<t>>: the open write transaction and its uncommitted tables
    now,               \* datetime.now(), in seconds
    selected_product,  \* st.session_state.selected_product per session: <<>> or <<snapshot>>
    cart,              \* st.session_state.cart per session: sequence of lines
    invoice_ready,     \* st.session_state.invoice_ready per session
    last_invoice_no,   \* st.session_state.last_invoice_no per session: <<>> or <<invoice_no>>
    last_pdf_bytes,    \* st.session_state.last_pdf_bytes per session: <<>> (None) or <<"pdf">>
    error,             \* what the session's last script run reported: <<>>, an st.error text or an uncaught exception
    pc,                \* where the session's confirm handler stands
    loc,               \* the confirm handler's locals
    discounts,         \* history: discount entered for each row of sales
    deducted,          \* history: stock the UPDATE took for each row of sale_items
    edits,             \* history: number of product saves and deletes so far
    uiOps,           \* history: number of selections and cart changes so far
    confirms,          \* history: number of confirm presses so far
    emptiedBy          \* history: the button that emptied the session's cart, "" while it holds lines

tables == <<products, customers, sales, sale_items>>
hist   == <<discounts, deducted, uiOps, confirms, emptiedBy>>
sess   == <<selected_product, cart, invoice_ready, last_invoice_no, last_pdf_bytes>>
vars   == <<products, customers, sales, sale_items, tx, now, selected_product, cart,
            invoice_ready, last_invoice_no, last_pdf_bytes, error, pc, loc,
            discounts, deducted, edits, uiOps, confirms, emptiedBy>>

\* ------------------------------------------------------- pure functions
RECURSIVE SumTotal(_)
SumTotal(lines) ==
    IF lines = <<>> THEN 0 ELSE Head(lines).total + SumTotal(Tail(lines))

RECURSIVE SumCost(_)
SumCost(lines) ==
    IF lines = <<>> THEN 0
    ELSE Head(lines).cost_price * Head(lines).qty + SumCost(Tail(lines))

Max(a, b) == IF a >= b THEN a ELSE b

\* mutant of GrandTotal: the clamp at zero is forgotten
GrandTotal_noclamp(lines, discount) == SumTotal(lines) - discount

\* subtotal = dfc["total"].sum(); grand_total = max(0.0, subtotal - discount)
GrandTotal(lines, discount) == Max(0, SumTotal(lines) - discount)

\* f"INV{datetime.now().strftime('%Y%m%d%H%M%S')}"
InvoiceNo(t) == <<"INV", t>>

\* seed_products, scaled down to two products
SeedProducts ==
    [c \in Codes |->
        IF c = "C001" THEN [price |-> 3, cost_price |-> 2, stock |-> MaxStock]
                      ELSE [price |-> 2, cost_price |-> 1, stock |-> MaxStock]]

NoLocals == [i |-> 0, discount |-> 0, cust |-> FALSE, invoice_no |-> <<>>,
             cust_id |-> 0, sale_id |-> 0]

Init ==
    /\ products = SeedProducts
    /\ customers = <<>>
    /\ sales = <<>>
    /\ sale_items = <<>>
    /\ tx = <<>>
    /\ now = 0
    /\ selected_product = [s \in Sessions |-> <<>>]
    /\ cart = [s \in Sessions |-> <<>>]
    /\ invoice_ready = [s \in Sessions |-> FALSE]
    /\ last_invoice_no = [s \in Sessions |-> <<>>]
    /\ last_pdf_bytes = [s \in Sessions |-> <<>>]
    /\ error = [s \in Sessions |-> <<>>]
    /\ pc = [s \in Sessions |-> "idle"]
    /\ loc = [s \in Sessions |-> NoLocals]
    /\ discounts = <<>>
    /\ deducted = <<>>
    /\ edits = 0
    /\ uiOps = 0
    /\ confirms = 0
    /\ emptiedBy = [s \in Sessions |-> ""]

\* the clock advances
Tick ==
    /\ now < MaxClock
    /\ now' = now + 1
    /\ UNCHANGED <<tables, tx, sess, error, pc, loc, hist, edits>>

\* ------------------------------------------------------- products_page
\* "Save Product": INSERT OR REPLACE INTO products ...; conn.commit()
\* (number_input min_value=0 keeps cost, price and stock non-negative)
SaveProduct(s, code, price, cost_price, stock) ==
    /\ pc[s] = "idle"
    /\ tx = <<>>
    /\ edits < MaxEdits
    /\ edits' = edits + 1
    /\ products' = [c \in DOMAIN products \cup {code} |->
                      IF c = code
                      THEN [price |-> price, cost_price |-> cost_price, stock |-> stock]
                      ELSE products[c]]
    /\ error' = [error EXCEPT ![s] = <<>>]
    /\ UNCHANGED <<customers, sales, sale_items, tx, now, sess, pc, loc, hist>>

\* mutant of DeleteProduct: the product's sale items are deleted with it
DeleteProduct_cascade(s, code) ==
    /\ pc[s] = "idle"
    /\ tx = <<>>
    /\ edits < MaxEdits
    /\ edits' = edits + 1
    /\ products' = [c \in DOMAIN products \ {code} |-> products[c]]
    /\ sale_items' = SelectSeq(sale_items, LAMBDA r : r.product_code # code)
    /\ error' = [error EXCEPT ![s] = <<>>]
    /\ UNCHANGED <<customers, sales, tx, now, sess, pc, loc, hist>>

\* "Delete Product": DELETE FROM products WHERE code=?; conn.commit()
DeleteProduct(s, code) ==
    /\ pc[s] = "idle"
    /\ tx = <<>>
    /\ edits < MaxEdits
    /\ edits' = edits + 1
    /\ products' = [c \in DOMAIN products \ {code} |-> products[c]]
    /\ error' = [error EXCEPT ![s] = <<>>]
    /\ UNCHANGED <<customers, sales, sale_items, tx, now, sess, pc, loc, hist>>

\* ------------------------------------------------------- new_sale_page
\* prod_df is read on every run; the page returns early when it is empty
PageOpen(s) == pc[s] = "idle" /\ DOMAIN products # {}

\* the page returns early when nothing is selected
ProductShown(s) == PageOpen(s) /\ selected_product[s] # <<>>

\* mutant of CartShown: the page does not return on an empty cart
CartShown_nocheck(s) == ProductShown(s)

\* the page returns early when the cart is empty
CartShown(s) == ProductShown(s) /\ cart[s] # <<>>

\* "Find" / "Select from list": selected_product = dict(row) of prod_df
SelectProduct(s, code) ==
    /\ uiOps < MaxUiOps
    /\ uiOps' = uiOps + 1
    /\ PageOpen(s)
    /\ code \in DOMAIN products
    /\ selected_product' = [selected_product EXCEPT ![s] =
          <<[code |-> code, price |-> products[code].price,
             cost_price |-> products[code].cost_price,
             stock |-> products[code].stock]>>]
    /\ error' = [error EXCEPT ![s] = <<>>]
    /\ UNCHANGED <<tables, tx, now, cart, invoice_ready, last_invoice_no,
                   last_pdf_bytes, pc, loc, discounts, deducted, confirms, edits, emptiedBy>>

LineIndex(lines, code) ==
    {k \in 1..Len(lines) : lines[k].product_code = code}

\* quantity the cart holds of a product code
CartQty(lines, code) ==
    IF LineIndex(lines, code) = {} THEN 0
    ELSE lines[CHOOSE k \in LineIndex(lines, code) :
                 \A j \in LineIndex(lines, code) : k <= j].qty

\* mutant of AddLine: an existing line is refreshed from the selected product
AddLine_refresh(lines, sel, qty) ==
    IF LineIndex(lines, sel.code) # {}
    THEN LET k == CHOOSE k \in LineIndex(lines, sel.code) :
                     \A j \in LineIndex(lines, sel.code) : k <= j
         IN [lines EXCEPT ![k] = [@ EXCEPT !.qty = @ + qty,
                                           !.price = sel.price,
                                           !.cost_price = sel.cost_price,
                                           !.total = sel.price * (lines[k].qty + qty)]]
    ELSE Append(lines, [product_code |-> sel.code, price |-> sel.price,
                        cost_price |-> sel.cost_price, qty |-> qty,
                        total |-> sel.price * qty])

\* mutant of AddLine: every add appends a new line
AddLine_append(lines, sel, qty) ==
    Append(lines, [product_code |-> sel.code, price |-> sel.price,
                   cost_price |-> sel.cost_price, qty |-> qty,
                   total |-> sel.price * qty])

\* the cart after the for-loop / append of "Add to Cart"
AddLine(lines, sel, qty) ==
    IF LineIndex(lines, sel.code) # {}
    THEN LET k == CHOOSE k \in LineIndex(lines, sel.code) :
                     \A j \in LineIndex(lines, sel.code) : k <= j
         IN [lines EXCEPT ![k] = [@ EXCEPT !.qty = @ + qty,
                                           !.total = lines[k].price * (lines[k].qty + qty)]]
    ELSE Append(lines, [product_code |-> sel.code, price |-> sel.price,
                        cost_price |-> sel.cost_price, qty |-> qty,
                        total |-> sel.price * qty])

\* "Add to Cart"
AddToCart(s, qty) ==
    /\ ProductShown(s)
    /\ LET sel == selected_product[s][1] IN
         IF qty > sel.stock
         THEN /\ error' = [error EXCEPT ![s] = <<"Not enough stock">>]
              /\ UNCHANGED <<cart, uiOps, emptiedBy>>
         ELSE /\ error' = [error EXCEPT ![s] = <<>>]
              /\ uiOps < MaxUiOps
              /\ uiOps' = uiOps + 1
              /\ CartQty(cart[s], sel.code) + qty <= MaxQty
              /\ cart' = [cart EXCEPT ![s] = AddLine(cart[s], sel, qty)]
              /\ emptiedBy' = [emptiedBy EXCEPT ![s] = ""]
    /\ UNCHANGED <<tables, tx, now, selected_product, invoice_ready, last_invoice_no,
                   last_pdf_bytes, pc, loc, discounts, deducted, confirms, edits>>

\* "Remove Item": cart = [it for it in cart if it["product_code"] != rem_code]
RemoveItem(s, code) ==
    /\ uiOps < MaxUiOps
    /\ uiOps' = uiOps + 1
    /\ CartShown(s)
    /\ cart' = [cart EXCEPT ![s] = SelectSeq(cart[s], LAMBDA it : it.product_code # code)]
    /\ emptiedBy' = [emptiedBy EXCEPT ![s] = IF cart'[s] = <<>> THEN "Remove Item" ELSE @]
    /\ error' = [error EXCEPT ![s] = <<>>]
    /\ UNCHANGED <<tables, tx, now, selected_product, invoice_ready, last_invoice_no,
                   last_pdf_bytes, pc, loc, discounts, deducted, confirms, edits>>

\* "Clear Cart"
ClearCart(s) ==
    /\ uiOps < MaxUiOps
    /\ uiOps' = uiOps + 1
    /\ CartShown(s)
    /\ cart' = [cart EXCEPT ![s] = <<>>]
    /\ emptiedBy' = [emptiedBy EXCEPT ![s] = "Clear Cart"]
    /\ error' = [error EXCEPT ![s] = <<>>]
    /\ UNCHANGED <<tables, tx, now, selected_product, invoice_ready, last_invoice_no,
                   last_pdf_bytes, pc, loc, discounts, deducted, confirms, edits>>

\* "Done (Clear Invoice Ready)"
Done(s) ==
    /\ uiOps < MaxUiOps
    /\ uiOps' = uiOps + 1
    /\ CartShown(s)
    /\ invoice_ready[s]
    /\ invoice_ready' = [invoice_ready EXCEPT ![s] = FALSE]
    /\ last_pdf_bytes' = [last_pdf_bytes EXCEPT ![s] = <<>>]
    /\ last_invoice_no' = [last_invoice_no EXCEPT ![s] = <<>>]
    /\ error' = [error EXCEPT ![s] = <<>>]
    /\ UNCHANGED <<tables, tx, now, selected_product, cart, pc, loc, discounts, deducted, confirms, edits, emptiedBy>>

\* "New Sale": clears the invoice and the cart
NewSale(s) ==
    /\ uiOps < MaxUiOps
    /\ uiOps' = uiOps + 1
    /\ CartShown(s)
    /\ invoice_ready[s]
    /\ invoice_ready' = [invoice_ready EXCEPT ![s] = FALSE]
    /\ last_pdf_bytes' = [last_pdf_bytes EXCEPT ![s] = <<>>]
    /\ last_invoice_no' = [last_invoice_no EXCEPT ![s] = <<>>]
    /\ cart' = [cart EXCEPT ![s] = <<>>]
    /\ emptiedBy' = [emptiedBy EXCEPT ![s] = "New Sale"]
    /\ error' = [error EXCEPT ![s] = <<>>]
    /\ UNCHANGED <<tables, tx, now, selected_product, pc, loc, discounts, deducted, confirms, edits>>

\* ------------------------------------- "Confirm & Generate Invoice"
\* The handler is one script run, but each SELECT and the write
\* transaction are separate database accesses that other sessions'
\* accesses interleave with; pc[s] is the statement the run is at.

\* the button is pressed; the discount and the customer fields are read
BeginConfirm(s, discount, cust) ==
    /\ CartShown(s)
    /\ confirms < MaxConfirms
    /\ confirms' = confirms + 1
    /\ pc' = [pc EXCEPT ![s] = "check"]
    /\ loc' = [loc EXCEPT ![s] = [NoLocals EXCEPT !.i = 1, !.discount = discount,
                                                  !.cust = cust]]
    /\ error' = [error EXCEPT ![s] = <<>>]
    /\ UNCHANGED <<tables, tx, now, sess, discounts, deducted, uiOps, edits, emptiedBy>>

\* mutant of Insufficient: a product that no longer exists passes the re-check
Insufficient_ignore_missing(prods, it) ==
    IF it.product_code \in DOMAIN prods
    THEN prods[it.product_code].stock < it.qty
    ELSE FALSE

\* not r or r['stock'] < it['qty']
Insufficient(prods, it) ==
    \/ it.product_code \notin DOMAIN prods
    \/ prods[it.product_code].stock < it.qty

\* one pass of the re-check loop: SELECT stock FROM products WHERE code=?
CheckStock(s) ==
    /\ pc[s] = "check"
    /\ LET it == cart[s][loc[s].i] IN
         IF Insufficient(products, it)
         THEN /\ error' = [error EXCEPT ![s] = <<"Insufficient stock for", it.product_code>>]
              /\ pc' = [pc EXCEPT ![s] = "idle"]
              /\ loc' = [loc EXCEPT ![s] = NoLocals]
         ELSE /\ error' = error
              /\ IF loc[s].i < Len(cart[s])
                 THEN /\ loc' = [loc EXCEPT ![s].i = @ + 1]
                      /\ pc' = pc
                 ELSE /\ loc' = [loc EXCEPT ![s].i = 0]
                      /\ pc' = [pc EXCEPT ![s] = "invoice"]
    /\ UNCHANGED <<tables, tx, now, sess, hist, edits>>

\* invoice_no = f"INV{datetime.now()...}"
MakeInvoiceNo(s) ==
    /\ pc[s] = "invoice"
    /\ loc' = [loc EXCEPT ![s].invoice_no = InvoiceNo(now)]
    /\ pc' = [pc EXCEPT ![s] = "customer"]
    /\ error' = error
    /\ UNCHANGED <<tables, tx, now, sess, hist, edits>>

\* the tables a write statement of session s works on: its open
\* transaction, or a transaction begun now on the committed tables
\* (possible only while no other connection holds the write lock)
CanWrite(s) == IF tx = <<>> THEN TRUE ELSE tx[1].owner = s

Work(s) ==
    IF tx # <<>>
    THEN tx[1]
    ELSE [owner |-> s, products |-> products, customers |-> customers,
          sales |-> sales, sale_items |-> sale_items,
          discounts |-> discounts, deducted |-> deducted]

\* if cust_name or cust_mobile: INSERT INTO customers ...; cust_id = cur.lastrowid
SaveCustomer(s) ==
    /\ pc[s] = "customer"
    /\ IF loc[s].cust
       THEN /\ CanWrite(s)
            /\ tx' = <<[Work(s) EXCEPT !.customers = Append(@, [name |-> "customer"])]>>
            /\ loc' = [loc EXCEPT ![s].cust_id = Len(Work(s).customers) + 1]
       ELSE /\ tx' = tx
            /\ loc' = loc
    /\ pc' = [pc EXCEPT ![s] = "sale"]
    /\ error' = error
    /\ UNCHANGED <<tables, now, sess, hist, edits>>

\* invoice_no TEXT UNIQUE
InvoiceTaken(rows, invoice_no) ==
    \E k \in 1..Len(rows) : rows[k].invoice_no = invoice_no

\* mutant of InsertSale: the sales table has no UNIQUE constraint on invoice_no
InsertSale_nounique(s) ==
    /\ pc[s] = "sale"
    /\ CanWrite(s)
    /\ tx' = <<[Work(s) EXCEPT
            !.sales = Append(@, [invoice_no |-> loc[s].invoice_no,
                                 user |-> s,
                                 customer_id |-> loc[s].cust_id,
                                 total |-> GrandTotal(cart[s], loc[s].discount),
                                 total_cost |-> SumCost(cart[s]),
                                 created_at |-> now]),
            !.discounts = Append(@, loc[s].discount)]>>
    /\ error' = error
    /\ pc' = [pc EXCEPT ![s] = "item"]
    /\ loc' = [loc EXCEPT ![s].sale_id = Len(Work(s).sales) + 1, ![s].i = 1]
    /\ UNCHANGED <<tables, now, sess, hist, edits>>

\* mutant of InsertSale: the connection runs in autocommit mode, the row is
\* visible as soon as it is inserted
InsertSale_autocommit(s) ==
    /\ pc[s] = "sale"
    /\ CanWrite(s)
    /\ ~InvoiceTaken(Work(s).sales, loc[s].invoice_no)
    /\ LET row == [invoice_no |-> loc[s].invoice_no, user |-> s,
                   customer_id |-> loc[s].cust_id,
                   total |-> GrandTotal(cart[s], loc[s].discount),
                   total_cost |-> SumCost(cart[s]), created_at |-> now]
       IN /\ tx' = <<[Work(s) EXCEPT !.sales = Append(@, row),
                                     !.discounts = Append(@, loc[s].discount)]>>
          /\ sales' = Append(Work(s).sales, row)
          /\ discounts' = Append(Work(s).discounts, loc[s].discount)
    /\ error' = error
    /\ pc' = [pc EXCEPT ![s] = "item"]
    /\ loc' = [loc EXCEPT ![s].sale_id = Len(Work(s).sales) + 1, ![s].i = 1]
    /\ UNCHANGED <<products, customers, sale_items, deducted, uiOps, confirms, emptiedBy, now, sess, edits>>

\* mutant of InsertSale: on a taken invoice number the run ends but the
\* customer row written before is committed
InsertSale_keepcustomer(s) ==
    /\ pc[s] = "sale"
    /\ CanWrite(s)
    /\ IF InvoiceTaken(Work(s).sales, loc[s].invoice_no)
       THEN /\ tx' = <<>>
            /\ customers' = Work(s).customers
            /\ error' = [error EXCEPT ![s] = <<"IntegrityError">>]
            /\ pc' = [pc EXCEPT ![s] = "idle"]
            /\ loc' = [loc EXCEPT ![s] = NoLocals]
       ELSE /\ tx' = <<[Work(s) EXCEPT
                    !.sales = Append(@, [invoice_no |-> loc[s].invoice_no,
                                         user |-> s,
                                         customer_id |-> loc[s].cust_id,
                                         total |-> GrandTotal(cart[s], loc[s].discount),
                                         total_cost |-> SumCost(cart[s]),
                                         created_at |-> now]),
                    !.discounts = Append(@, loc[s].discount)]>>
            /\ customers' = customers
            /\ error' = error
            /\ pc' = [pc EXCEPT ![s] = "item"]
            /\ loc' = [loc EXCEPT ![s].sale_id = Len(Work(s).sales) + 1, ![s].i = 1]
    /\ UNCHANGED <<products, sales, sale_items, now, sess, hist, edits>>

\* INSERT INTO sales (...): the UNIQUE constraint raises sqlite3.IntegrityError,
\* which nothing catches: the run ends and the dropped connection rolls back
InsertSale(s) ==
    /\ pc[s] = "sale"
    /\ CanWrite(s)
    /\ IF InvoiceTaken(Work(s).sales, loc[s].invoice_no)
       THEN /\ tx' = <<>>
            /\ error' = [error EXCEPT ![s] = <<"IntegrityError">>]
            /\ pc' = [pc EXCEPT ![s] = "idle"]
            /\ loc' = [loc EXCEPT ![s] = NoLocals]
       ELSE /\ tx' = <<[Work(s) EXCEPT
                    !.sales = Append(@, [invoice_no |-> loc[s].invoice_no,
                                         user |-> s,
                                         customer_id |-> loc[s].cust_id,
                                         total |-> GrandTotal(cart[s], loc[s].discount),
                                         total_cost |-> SumCost(cart[s]),
                                         created_at |-> now]),
                    !.discounts = Append(@, loc[s].discount)]>>
            /\ error' = error
            /\ pc' = [pc EXCEPT ![s] = "item"]
            /\ loc' = [loc EXCEPT ![s].sale_id = Len(Work(s).sales) + 1, ![s].i = 1]
    /\ UNCHANGED <<tables, now, sess, hist, edits>>

\* INSERT INTO sale_items (...) for cart line i
InsertSaleItem(s) ==
    /\ pc[s] = "item"
    /\ CanWrite(s)
    /\ LET it == cart[s][loc[s].i] IN
         tx' = <<[Work(s) EXCEPT
                    !.sale_items = Append(@, [sale_id |-> loc[s].sale_id,
                                              product_code |-> it.product_code,
                                              price |-> it.price,
                                              cost_price |-> it.cost_price,
                                              qty |-> it.qty,
                                              total |-> it.total])]>>
    /\ pc' = [pc EXCEPT ![s] = "stock"]
    /\ error' = error
    /\ UNCHANGED <<tables, now, sess, loc, hist, edits>>

\* UPDATE products SET stock = stock - ? WHERE code=?
DecrementStock(prods, code, qty) ==
    [c \in DOMAIN prods |->
        IF c = code THEN [prods[c] EXCEPT !.stock = @ - qty] ELSE prods[c]]

\* the UPDATE for cart line i; it changes no row when the product is gone
UpdateStock(s) ==
    /\ pc[s] = "stock"
    /\ CanWrite(s)
    /\ LET it == cart[s][loc[s].i] IN
         tx' = <<[Work(s) EXCEPT
                    !.products = DecrementStock(@, it.product_code, it.qty),
                    !.deducted = Append(@, IF it.product_code \in DOMAIN Work(s).products
                                           THEN it.qty ELSE 0)]>>
    /\ IF loc[s].i < Len(cart[s])
       THEN /\ loc' = [loc EXCEPT ![s].i = @ + 1]
            /\ error' = error
            /\ pc' = [pc EXCEPT ![s] = "item"]
       ELSE /\ loc' = loc
            /\ pc' = [pc EXCEPT ![s] = "commit"]
    /\ error' = error
    /\ UNCHANGED <<tables, now, sess, hist, edits>>

\* mutant of Commit: the cart is cleared once the sale is committed
Commit_clearcart(s, pdf_ok) ==
    /\ pc[s] = "commit"
    /\ CanWrite(s)
    /\ products' = Work(s).products
    /\ customers' = Work(s).customers
    /\ sales' = Work(s).sales
    /\ sale_items' = Work(s).sale_items
    /\ discounts' = Work(s).discounts
    /\ deducted' = Work(s).deducted
    /\ tx' = <<>>
    /\ last_invoice_no' = [last_invoice_no EXCEPT ![s] = <<loc[s].invoice_no>>]
    /\ last_pdf_bytes' = [last_pdf_bytes EXCEPT ![s] = IF pdf_ok THEN <<"pdf">> ELSE <<>>]
    /\ invoice_ready' = [invoice_ready EXCEPT ![s] = TRUE]
    /\ pc' = [pc EXCEPT ![s] = "idle"]
    /\ loc' = [loc EXCEPT ![s] = NoLocals]
    /\ cart' = [cart EXCEPT ![s] = <<>>]
    /\ error' = [error EXCEPT ![s] = IF pdf_ok THEN <<>> ELSE <<"PDF generation error">>]
    /\ UNCHANGED <<now, selected_product, edits, uiOps, confirms, emptiedBy>>

\* mutant of Commit: a failed PDF generation rolls the sale back
Commit_pdf_rollback(s, pdf_ok) ==
    /\ pc[s] = "commit"
    /\ CanWrite(s)
    /\ products' = IF pdf_ok THEN Work(s).products ELSE products
    /\ customers' = IF pdf_ok THEN Work(s).customers ELSE customers
    /\ sales' = IF pdf_ok THEN Work(s).sales ELSE sales
    /\ sale_items' = IF pdf_ok THEN Work(s).sale_items ELSE sale_items
    /\ discounts' = IF pdf_ok THEN Work(s).discounts ELSE discounts
    /\ deducted' = IF pdf_ok THEN Work(s).deducted ELSE deducted
    /\ tx' = <<>>
    /\ last_invoice_no' = [last_invoice_no EXCEPT ![s] = <<loc[s].invoice_no>>]
    /\ last_pdf_bytes' = [last_pdf_bytes EXCEPT ![s] = IF pdf_ok THEN <<"pdf">> ELSE <<>>]
    /\ invoice_ready' = [invoice_ready EXCEPT ![s] = TRUE]
    /\ pc' = [pc EXCEPT ![s] = "idle"]
    /\ loc' = [loc EXCEPT ![s] = NoLocals]
    /\ error' = [error EXCEPT ![s] = IF pdf_ok THEN <<>> ELSE <<"PDF generation error">>]
    /\ UNCHANGED <<now, selected_product, cart, edits, uiOps, confirms, emptiedBy>>

\* mutant of Commit: while an invoice is still marked ready, a further
\* confirm of the session is dropped without a trace
Commit_skip_repeat(s, pdf_ok) ==
    /\ pc[s] = "commit"
    /\ CanWrite(s)
    /\ products' = IF invoice_ready[s] THEN products ELSE Work(s).products
    /\ customers' = IF invoice_ready[s] THEN customers ELSE Work(s).customers
    /\ sales' = IF invoice_ready[s] THEN sales ELSE Work(s).sales
    /\ sale_items' = IF invoice_ready[s] THEN sale_items ELSE Work(s).sale_items
    /\ discounts' = IF invoice_ready[s] THEN discounts ELSE Work(s).discounts
    /\ deducted' = IF invoice_ready[s] THEN deducted ELSE Work(s).deducted
    /\ tx' = <<>>
    /\ last_invoice_no' = IF invoice_ready[s] THEN last_invoice_no
                          ELSE [last_invoice_no EXCEPT ![s] = <<loc[s].invoice_no>>]
    /\ last_pdf_bytes' = IF invoice_ready[s] THEN last_pdf_bytes
                         ELSE [last_pdf_bytes EXCEPT ![s] = IF pdf_ok THEN <<"pdf">> ELSE <<>>]
    /\ invoice_ready' = [invoice_ready EXCEPT ![s] = TRUE]
    /\ pc' = [pc EXCEPT ![s] = "idle"]
    /\ loc' = [loc EXCEPT ![s] = NoLocals]
    /\ error' = [error EXCEPT ![s] = IF pdf_ok THEN <<>> ELSE <<"PDF generation error">>]
    /\ UNCHANGED <<now, selected_product, cart, edits, uiOps, confirms, emptiedBy>>

\* conn.commit(), then the invoice documents: generate_invoice_bytes may
\* raise (pdf_bytes = None, st.error); the cart is not cleared
Commit(s, pdf_ok) ==
    /\ pc[s] = "commit"
    /\ CanWrite(s)
    /\ products' = Work(s).products
    /\ customers' = Work(s).customers
    /\ sales' = Work(s).sales
    /\ sale_items' = Work(s).sale_items
    /\ discounts' = Work(s).discounts
    /\ deducted' = Work(s).deducted
    /\ tx' = <<>>
    /\ last_invoice_no' = [last_invoice_no EXCEPT ![s] = <<loc[s].invoice_no>>]
    /\ last_pdf_bytes' = [last_pdf_bytes EXCEPT ![s] = IF pdf_ok THEN <<"pdf">> ELSE <<>>]
    /\ invoice_ready' = [invoice_ready EXCEPT ![s] = TRUE]
    /\ pc' = [pc EXCEPT ![s] = "idle"]
    /\ loc' = [loc EXCEPT ![s] = NoLocals]
    /\ error' = [error EXCEPT ![s] = IF pdf_ok THEN <<>> ELSE <<"PDF generation error">>]
    /\ UNCHANGED <<now, selected_product, cart, edits, uiOps, confirms, emptiedBy>>

\* a write statement or the commit raises (sqlite3.OperationalError:
\* database is locked, disk error, the process dies): nothing catches it,
\* the run ends and the connection is dropped uncommitted
PersistenceFailure(s) ==
    /\ pc[s] \in {"customer", "sale", "item", "stock", "commit"}
    /\ tx' = IF tx = <<>> THEN tx ELSE IF tx[1].owner = s THEN <<>> ELSE tx
    /\ pc' = [pc EXCEPT ![s] = "idle"]
    /\ loc' = [loc EXCEPT ![s] = NoLocals]
    /\ error' = [error EXCEPT ![s] = <<"OperationalError">>]
    /\ UNCHANGED <<tables, now, sess, hist, edits>>

\* ------------------------------------------------- sales_record_page
\* invoice numbers typed into "Enter Invoice No to view items": every number
\* the clock can issue and one that no sale has
LookupInputs == {InvoiceNo(t) : t \in 0..MaxClock} \cup {InvoiceNo(-1)}

\* mutant of ShowInvoiceItems: the WHERE clause is missing
ShowInvoiceItems_all(inv) == sale_items

\* "Show Invoice Items": SELECT * FROM sale_items WHERE sale_id =
\* (SELECT id FROM sales WHERE invoice_no=?), read from the committed tables;
\* the scalar subquery is the first matching id, or NULL, which no row equals
ShowInvoiceItems(inv) ==
    LET ids == {k \in 1..Len(sales) : sales[k].invoice_no = inv}
    IN IF ids = {} THEN <<>>
       ELSE LET id == CHOOSE k \in ids : \A j \in ids : k <= j
            IN SelectSeq(sale_items, LAMBDA r : r.sale_id = id)

Next ==
    \/ Tick
    \/ \E s \in Sessions, code \in Codes, price \in SavePrices,
          cost_price \in SaveCosts, stock \in 0..MaxStock :
          SaveProduct(s, code, price, cost_price, stock)
    \/ \E s \in Sessions, code \in Codes : DeleteProduct(s, code)
    \/ \E s \in Sessions, code \in Codes : SelectProduct(s, code)
    \/ \E s \in Sessions, qty \in 1..MaxQty : AddToCart(s, qty)
    \/ \E s \in Sessions, code \in Codes : RemoveItem(s, code)
    \/ \E s \in Sessions : ClearCart(s)
    \/ \E s \in Sessions : Done(s)
    \/ \E s \in Sessions : NewSale(s)
    \/ \E s \in Sessions, discount \in Discounts, cust \in BOOLEAN :
          BeginConfirm(s, discount, cust)
    \/ \E s \in Sessions : CheckStock(s)
    \/ \E s \in Sessions : MakeInvoiceNo(s)
    \/ \E s \in Sessions : SaveCustomer(s)
    \/ \E s \in Sessions : InsertSale(s)
    \/ \E s \in Sessions : InsertSaleItem(s)
    \/ \E s \in Sessions : UpdateStock(s)
    \/ \E s \in Sessions, pdf_ok \in BOOLEAN : Commit(s, pdf_ok)
    \/ \E s \in Sessions : PersistenceFailure(s)

Spec == Init /\ [][Next]_vars
\* =================================================================
\* Properties
\* =================================================================
\* the rows of sale_items that belong to row k of sales
ItemsOfSale(k) == SelectSeq(sale_items, LAMBDA r : r.sale_id = k)

RECURSIVE ItemTotalSum(_)
ItemTotalSum(rows) ==
    IF rows = <<>> THEN 0 ELSE Head(rows).total + ItemTotalSum(Tail(rows))

RECURSIVE ItemCostSum(_)
ItemCostSum(rows) ==
    IF rows = <<>> THEN 0
    ELSE Head(rows).cost_price * Head(rows).qty + ItemCostSum(Tail(rows))

\* the cart line of a product code (the code is in the cart)
LineOf(lines, code) == lines[CHOOSE k \in 1..Len(lines) : lines[k].product_code = code]

InCart(lines, code) == \E k \in 1..Len(lines) : lines[k].product_code = code

\* the line is one the re-check rejects against the committed catalog
Offending(it) ==
    IF it.product_code \in DOMAIN products
    THEN it.qty > products[it.product_code].stock
    ELSE TRUE

\* session s holds no uncommitted write
NoPendingWrite(s) == IF tx = <<>> THEN TRUE ELSE tx[1].owner # s

\* C1: in every reachable state every product's stock is >= 0.
C1_StockNeverNegative ==
    \A c \in DOMAIN products : products[c].stock >= 0

\* C2: two sessions each holding qty 1 of the same product whose stock is 1
\* (the seeded stock, no product was saved or deleted) never both get their
\* sale recorded.
C2_NeverBothRecorded ==
    ~ \E i, j \in 1..Len(sales), c \in Codes :
        /\ i # j
        /\ sales[i].user # sales[j].user
        /\ edits = 0
        /\ SeedProducts[c].stock = 1
        /\ Len(ItemsOfSale(i)) = 1
        /\ Len(ItemsOfSale(j)) = 1
        /\ ItemsOfSale(i)[1].product_code = c /\ ItemsOfSale(i)[1].qty = 1
        /\ ItemsOfSale(j)[1].product_code = c /\ ItemsOfSale(j)[1].qty = 1

\* C3: when the re-check reads a cart line whose quantity exceeds the
\* product's stock, or whose product is gone, the confirm ends there with the
\* insufficient-stock error for that line, and no table, committed or
\* pending, has changed.
C3_FailedCheckWritesNothing ==
    [][\A s \in Sessions :
         (/\ pc[s] = "check"
          /\ <<pc[s], loc[s]>>' # <<pc[s], loc[s]>>
          /\ Offending(cart[s][loc[s].i]))
         => (/\ pc'[s] = "idle"
             /\ error'[s] = <<"Insufficient stock for", cart[s][loc[s].i].product_code>>
             /\ tables' = tables
             /\ tx' = tx
             /\ NoPendingWrite(s))]_vars

\* a confirm failed at the second line of a cart whose first line passes,
\* and nothing is recorded
C3_Witness ==
    \E s \in Sessions :
        /\ pc[s] = "idle"
        /\ Len(cart[s]) = 2
        /\ error[s] = <<"Insufficient stock for", cart[s][2].product_code>>
        /\ ~Offending(cart[s][1])
        /\ Offending(cart[s][2])
        /\ sales = <<>> /\ sale_items = <<>> /\ customers = <<>>
        /\ products[cart[s][1].product_code].stock = SeedProducts[cart[s][1].product_code].stock

\* what one whole commit of session s adds to the committed tables
WholeCommit(s) ==
    /\ customers' = IF loc[s].cust THEN Append(customers, [name |-> "customer"])
                                   ELSE customers
    /\ Len(sales') = Len(sales) + 1
    /\ SubSeq(sales', 1, Len(sales)) = sales
    /\ sales'[Len(sales')].invoice_no = loc[s].invoice_no
    /\ sales'[Len(sales')].user = s
    /\ sale_items' = sale_items \o
          [k \in 1..Len(cart[s]) |->
              [sale_id |-> Len(sales) + 1,
               product_code |-> cart[s][k].product_code,
               price |-> cart[s][k].price,
               cost_price |-> cart[s][k].cost_price,
               qty |-> cart[s][k].qty,
               total |-> cart[s][k].total]]
    /\ DOMAIN products' = DOMAIN products
    /\ \A c \in DOMAIN products :
          products'[c] = [products[c] EXCEPT !.stock = @ - CartQty(cart[s], c)]

\* C4: the committed tables change only by a product save or delete, or by
\* one whole commit (customer, sale header, every sale item and every stock
\* decrement in the same step); every other step, a failure between two
\* sub-steps included, leaves them as they were.
C4_CommitIsAtomic ==
    [][\/ tables' = tables
       \/ /\ edits' = edits + 1
          /\ <<customers, sales, sale_items>>' = <<customers, sales, sale_items>>
       \/ \E s \in Sessions :
             /\ pc[s] = "commit"
             /\ pc'[s] = "idle"
             /\ WholeCommit(s)]_vars

\* a commit is half way: sale header and item written, stock not yet
\* decremented, and no reader sees any of it
C4_Witness ==
    /\ tx # <<>>
    /\ Len(tx[1].sales) = Len(sales) + 1
    /\ Len(tx[1].sale_items) = Len(sale_items) + 1
    /\ Len(tx[1].customers) = Len(customers) + 1
    /\ tx[1].products = products
    /\ pc[tx[1].owner] = "stock"

\* C5: every committed sale's total is max(0, sum of its items' totals -
\* discount), never negative, and its total_cost is the sum of
\* cost_price * qty over its items.
C5_TotalsReconcile ==
    \A k \in 1..Len(sales) :
        /\ sales[k].total =
             (IF ItemTotalSum(ItemsOfSale(k)) - discounts[k] > 0
              THEN ItemTotalSum(ItemsOfSale(k)) - discounts[k] ELSE 0)
        /\ sales[k].total >= 0
        /\ sales[k].total_cost = ItemCostSum(ItemsOfSale(k))

\* a committed sale whose discount exceeds its items' total
C5_Witness ==
    \E k \in 1..Len(sales) :
        /\ discounts[k] > ItemTotalSum(ItemsOfSale(k))
        /\ ItemsOfSale(k) # <<>>
        /\ sales[k].total = 0
        /\ sales[k].total_cost > 0

\* C6: no two rows of sales share an invoice number.
C6_InvoiceNumbersUnique ==
    \A i, j \in 1..Len(sales) :
        i # j => sales[i].invoice_no # sales[j].invoice_no

\* a second commit was issued within the clock second of a recorded sale
\* and was turned away
C6_Witness ==
    \E s \in Sessions :
        /\ error[s] = <<"IntegrityError">>
        /\ Len(sales) = 1
        /\ sales[1].user # s
        /\ sales[1].invoice_no = InvoiceNo(now)

\* C7: while a product stays in the cart, its line keeps its price and cost,
\* and its total is that price times the line's quantity, whatever is saved
\* in the catalog and also when the product is added again.
C7_CartLineSnapshot ==
    [][\A s \in Sessions, c \in Codes :
         (InCart(cart[s], c) /\ InCart(cart'[s], c))
         => (/\ LineOf(cart'[s], c).price = LineOf(cart[s], c).price
             /\ LineOf(cart'[s], c).cost_price = LineOf(cart[s], c).cost_price
             /\ LineOf(cart'[s], c).total
                  = LineOf(cart[s], c).price * LineOf(cart'[s], c).qty)]_vars

\* a product was saved with another price and cost, selected again and
\* added again: the line's quantity grew, its price and cost did not move
C7_Witness ==
    \E s \in Sessions :
        /\ selected_product[s] # <<>>
        /\ InCart(cart[s], selected_product[s][1].code)
        /\ LET sel == selected_product[s][1]
               it  == LineOf(cart[s], sel.code)
           IN /\ it.qty = 2
              /\ sel.price # it.price
              /\ sel.cost_price # it.cost_price
              /\ products[sel.code].price = sel.price
              /\ it.total = it.price * 2
              /\ uiOps = 4

\* C8: an add is accepted only when the added quantity is at most the
\* product's stock in the catalog at that moment.
C8_AddCheckedAgainstLiveStock ==
    [][\A s \in Sessions, c \in Codes :
         CartQty(cart'[s], c) > CartQty(cart[s], c)
         => (/\ c \in DOMAIN products
             /\ CartQty(cart'[s], c) - CartQty(cart[s], c) <= products[c].stock)]_vars

\* C9 as stated: a commit leaves the cart as it was, and a cart becomes
\* empty only by Clear Cart or New Sale.
C9_EmptiedOnlyByClearOrNewSale ==
    [][\A s \in Sessions :
         /\ pc[s] # "idle" => cart'[s] = cart[s]
         /\ (cart[s] # <<>> /\ cart'[s] = <<>>)
            => emptiedBy'[s] \in {"Clear Cart", "New Sale"}]_vars

\* C9 as amended: a commit (every step of the confirm handler) leaves the
\* cart as it was, and a cart becomes empty only by Clear Cart, New Sale or
\* Remove Item.
C9_CommitLeavesCart ==
    [][\A s \in Sessions :
         /\ pc[s] # "idle" => cart'[s] = cart[s]
         /\ (cart[s] # <<>> /\ cart'[s] = <<>>)
            => emptiedBy'[s] \in {"Clear Cart", "New Sale", "Remove Item"}]_vars

\* a sale of session s is committed and its cart still holds the lines sold
C9_Witness ==
    \E s \in Sessions :
        /\ invoice_ready[s]
        /\ pc[s] = "idle"
        /\ cart[s] # <<>>
        /\ Len(sales) = 1
        /\ sales[1].user = s
        /\ Len(sale_items) = Len(cart[s])
        /\ \A k \in 1..Len(cart[s]) :
              /\ sale_items[k].product_code = cart[s][k].product_code
              /\ sale_items[k].qty = cart[s][k].qty
              /\ sale_items[k].total = cart[s][k].total

\* C10: every recorded sale item's qty is the amount its commit took from
\* the product's stock.
C10_QtyMatchesDeduction ==
    \A k \in 1..Len(sale_items) : deducted[k] = sale_items[k].qty

RECURSIVE QtySum(_)
QtySum(rows) == IF rows = <<>> THEN 0 ELSE Head(rows).qty + QtySum(Tail(rows))

SoldQty(c) == QtySum(SelectSeq(sale_items, LAMBDA r : r.product_code = c))

\* with no product saved or deleted, the seeded stock less the current stock
\* is the quantity sold
StockConservation ==
    edits = 0 => \A c \in Codes : SeedProducts[c].stock - products[c].stock = SoldQty(c)
\* C11: when PDF generation fails after the commit, the whole sale is
\* recorded all the same, no PDF bytes are stored, and the invoice is marked
\* ready under its invoice number; an invoice marked ready always names a
\* recorded sale of that session with its items.
C11_PdfFailureKeepsSale ==
    [][\A s \in Sessions :
         /\ (pc[s] = "commit" /\ pc'[s] = "idle"
             /\ error'[s] = <<"PDF generation error">>)
            => (/\ WholeCommit(s)
                /\ last_pdf_bytes'[s] = <<>>
                /\ invoice_ready'[s]
                /\ last_invoice_no'[s] = <<loc[s].invoice_no>>)
         /\ invoice_ready'[s]
            => \E k \in 1..Len(sales') :
                  /\ <<sales'[k].invoice_no>> = last_invoice_no'[s]
                  /\ sales'[k].user = s
                  /\ \E j \in 1..Len(sale_items') : sale_items'[j].sale_id = k]_vars

\* PDF generation failed for the one recorded sale: the sale, its item and
\* the stock decrement are there, the invoice is ready, the PDF is absent
C11_Witness ==
    \E s \in Sessions :
        /\ error[s] = <<"PDF generation error">>
        /\ invoice_ready[s]
        /\ last_pdf_bytes[s] = <<>>
        /\ Len(sales) = 1
        /\ last_invoice_no[s] = <<sales[1].invoice_no>>
        /\ Len(sale_items) = 1
        /\ edits = 0
        /\ products[sale_items[1].product_code].stock
             = SeedProducts[sale_items[1].product_code].stock - sale_items[1].qty
\* every line of a cart has its own product code, quantity at least 1 and
\* total = price * qty
CartWellFormed(lines) ==
    /\ \A k, j \in 1..Len(lines) :
          lines[k].product_code = lines[j].product_code => k = j
    /\ \A k \in 1..Len(lines) :
          lines[k].qty >= 1 /\ lines[k].total = lines[k].price * lines[k].qty

\* the step added to a product code the cart already holds: that one line
\* has a larger quantity and total = price * new quantity, the rest is as before
ReAdded(old, new) ==
    /\ Len(new) = Len(old)
    /\ \E k \in 1..Len(old) :
          /\ new[k].product_code = old[k].product_code
          /\ new[k].price = old[k].price
          /\ new[k].cost_price = old[k].cost_price
          /\ new[k].qty > old[k].qty
          /\ new[k].total = old[k].price * new[k].qty
          /\ \A j \in 1..Len(old) : j # k => new[j] = old[j]

\* C12: a cart holds at most one line per product code, every line has
\* qty >= 1 and total = price * qty, and adding a product that is already in
\* the cart raises that line's quantity and recomputes its total instead of
\* creating a second line.
C12_OneLinePerProduct ==
    /\ [](\A s \in Sessions : CartWellFormed(cart[s]))
    /\ [][\A s \in Sessions :
            (/\ cart'[s] # cart[s]
             /\ selected_product[s] # <<>>
             /\ InCart(cart[s], selected_product[s][1].code)
             /\ Len(cart'[s]) >= Len(cart[s]))
            => ReAdded(cart[s], cart'[s])]_vars

\* a product was added twice (one add takes at most MaxStock = 1): the cart
\* holds one line of quantity 2 for it
C12_Witness ==
    \E s \in Sessions :
        /\ Len(cart[s]) = 1
        /\ uiOps >= 3
        /\ cart[s][1].qty = 2
        /\ cart[s][1].total = 2 * cart[s][1].price
\* C13: the confirm handler never runs on an empty cart, and every recorded
\* sale has at least one sale item.
C13_NoCommitOnEmptyCart ==
    /\ \A s \in Sessions : pc[s] # "idle" => cart[s] # <<>>
    /\ \A k \in 1..Len(sales) : ItemsOfSale(k) # <<>>

\* after a recorded sale a session emptied its cart: the page is open with a
\* product selected and confirms are still allowed, but none can start
C13_Witness ==
    /\ Len(sales) >= 1
    /\ confirms < MaxConfirms
    /\ \E s \in Sessions :
          /\ cart[s] = <<>>
          /\ emptiedBy[s] # ""
          /\ ProductShown(s)
          /\ \A discount \in Discounts, cust \in BOOLEAN :
                ~ ENABLED BeginConfirm(s, discount, cust)
\* C14: a commit whose invoice number is already recorded is not accepted:
\* the handler's next step ends the run with an error, and no customer, sale
\* or sale item row and no stock change of the attempt is recorded or left
\* pending.
C14_CollisionLeavesNothing ==
    [][\A s \in Sessions :
         (/\ pc[s] = "sale"
          /\ InvoiceTaken(sales, loc[s].invoice_no)
          /\ <<pc[s], loc[s]>>' # <<pc[s], loc[s]>>)
         => (/\ pc'[s] = "idle"
             /\ error'[s] \in {<<"IntegrityError">>, <<"OperationalError">>}
             /\ tables' = tables
             /\ IF tx' = <<>> THEN TRUE ELSE tx'[1].owner # s
             /\ invoice_ready'[s] = invoice_ready[s]
             /\ last_invoice_no'[s] = last_invoice_no[s])]_vars

\* session s was turned away on the invoice number of the other session's
\* sale: only that sale is recorded, no customer row, s made no stock change
C14_Witness ==
    \E s \in Sessions :
        /\ error[s] = <<"IntegrityError">>
        /\ pc[s] = "idle"
        /\ tx = <<>>
        /\ ~invoice_ready[s]
        /\ cart[s] # <<>>
        /\ Len(sales) = 1
        /\ sales[1].user # s
        /\ customers = <<>>
        /\ Len(sale_items) = 1
        /\ edits = 0
        /\ \A c \in Codes :
              products[c].stock = SeedProducts[c].stock
                                    - (IF sale_items[1].product_code = c
                                       THEN sale_items[1].qty ELSE 0)
\* C15: a recorded sale and its recorded sale items never change and are
\* never deleted: every step keeps every existing row of sales and of
\* sale_items as it is, and only appends.
C15_SalesImmutable ==
    [][/\ Len(sales') >= Len(sales)
       /\ SubSeq(sales', 1, Len(sales)) = sales
       /\ Len(sale_items') >= Len(sale_items)
       /\ SubSeq(sale_items', 1, Len(sale_items)) = sale_items]_vars

\* two sales are recorded, and the product of a recorded item has since been
\* deleted from the catalog or saved with another price
C15_Witness ==
    /\ Len(sales) = 2
    /\ edits = 1
    /\ \E j \in 1..Len(sale_items) :
          /\ sale_items[j].sale_id = 1
          /\ \/ sale_items[j].product_code \notin DOMAIN products
             \/ /\ sale_items[j].product_code \in DOMAIN products
                /\ products[sale_items[j].product_code].price # sale_items[j].price
\* the sale items a commit of session s writes: one per cart line
ItemsOfCart(lines, sale_id) ==
    [k \in 1..Len(lines) |->
        [sale_id |-> sale_id,
         product_code |-> lines[k].product_code,
         price |-> lines[k].price,
         cost_price |-> lines[k].cost_price,
         qty |-> lines[k].qty,
         total |-> lines[k].total]]

\* C16: looking up an invoice number returns exactly the sale items written
\* by the commit that created the sale with that number, one per cart line
\* of that commit and none of another sale, from the commit on; when no sale
\* has the number the result is empty.
C16_LookupReturnsItsItems ==
    /\ [](\A inv \in LookupInputs :
            /\ ~InvoiceTaken(sales, inv) => ShowInvoiceItems(inv) = <<>>
            /\ \A k \in 1..Len(sales) :
                  sales[k].invoice_no = inv => ShowInvoiceItems(inv) = ItemsOfSale(k))
    /\ [][/\ \A s \in Sessions, inv \in LookupInputs :
               (/\ pc[s] = "commit" /\ pc'[s] = "idle" /\ sales' # sales
                /\ inv = loc[s].invoice_no)
               => ShowInvoiceItems(inv)' = ItemsOfCart(cart[s], Len(sales) + 1)
          /\ \A inv \in LookupInputs :
               InvoiceTaken(sales, inv)
               => ShowInvoiceItems(inv)' = ShowInvoiceItems(inv)]_vars

\* two sales with different items are recorded: each invoice number returns
\* its own items, and a number no sale has returns nothing
C16_Witness ==
    /\ Len(sales) = 2
    /\ ShowInvoiceItems(sales[1].invoice_no) # <<>>
    /\ ShowInvoiceItems(sales[2].invoice_no) # <<>>
    /\ ShowInvoiceItems(sales[1].invoice_no)[1].product_code
         # ShowInvoiceItems(sales[2].invoice_no)[1].product_code
    /\ Len(ShowInvoiceItems(sales[1].invoice_no))
         + Len(ShowInvoiceItems(sales[2].invoice_no)) = Len(sale_items)
    /\ ShowInvoiceItems(InvoiceNo(-1)) = <<>>
\* the cart of session s, as it is, has already produced a recorded sale
Resold(s) ==
    \E k \in 1..Len(sales) :
        /\ sales[k].user = s
        /\ ItemsOfSale(k) = ItemsOfCart(cart[s], k)

\* a confirm of a cart that already produced a sale starts with the stock
\* re-check, and a re-check that reads an offending line ends the run with
\* the insufficient-stock error and changes nothing
ReconfirmRevalidates(s) ==
    /\ (pc[s] = "idle" /\ pc'[s] # "idle")
       => (pc'[s] = "check" /\ loc'[s].i = 1 /\ tables' = tables)
    /\ (/\ pc[s] = "check"
        /\ <<pc[s], loc[s]>>' # <<pc[s], loc[s]>>
        /\ Offending(cart[s][loc[s].i]))
       => (/\ pc'[s] = "idle"
           /\ error'[s] = <<"Insufficient stock for", cart[s][loc[s].i].product_code>>
           /\ tables' = tables
           /\ tx' = tx
           /\ NoPendingWrite(s))

\* C17 as stated: confirming again a cart that already produced a sale
\* re-validates the stock; a run that passed the re-check and met no
\* persistence failure ends by recording a second whole sale with the same
\* lines and decrementing each stock again; a failed re-check changes nothing.
C17_ReconfirmRecordsSecondSale ==
    [][\A s \in Sessions :
         Resold(s)
         => (/\ ReconfirmRevalidates(s)
             /\ (/\ pc[s] \notin {"idle", "check"}
                 /\ pc'[s] = "idle"
                 /\ error'[s] # <<"OperationalError">>)
                => (pc[s] = "commit" /\ WholeCommit(s)))]_vars

\* C17 as amended: confirming again a cart that already produced a sale is
\* an independent commit: the stock is re-validated, a failed re-check
\* changes nothing, and a run that passed the re-check and met no
\* persistence failure ends either by recording a second whole sale with the
\* same lines and decrementing each stock again, or, when its invoice number
\* is already recorded, with the uniqueness error and no change.
C17_ReconfirmIsIndependentCommit ==
    [][\A s \in Sessions :
         Resold(s)
         => (/\ ReconfirmRevalidates(s)
             /\ (/\ pc[s] \notin {"idle", "check"}
                 /\ pc'[s] = "idle"
                 /\ error'[s] # <<"OperationalError">>)
                => \/ pc[s] = "commit" /\ WholeCommit(s)
                   \/ /\ pc[s] = "sale"
                      /\ InvoiceTaken(sales, loc[s].invoice_no)
                      /\ error'[s] = <<"IntegrityError">>
                      /\ tables' = tables
                      /\ IF tx' = <<>> THEN TRUE ELSE tx'[1].owner # s)]_vars

\* one cart produced two sales: same session, same lines, different invoice
\* numbers, and the product restocked to 1 in between is at 0 again
C17_Witness ==
    \E s \in Sessions :
        /\ Len(sales) = 2
        /\ sales[1].user = s /\ sales[2].user = s
        /\ sales[1].invoice_no # sales[2].invoice_no
        /\ cart[s] # <<>>
        /\ ItemsOfSale(1) = ItemsOfCart(cart[s], 1)
        /\ ItemsOfSale(2) = ItemsOfCart(cart[s], 2)
        /\ edits = 1
        /\ \A k \in 1..Len(cart[s]) :
              /\ cart[s][k].product_code \in DOMAIN products
              /\ products[cart[s][k].product_code].stock = 0
====
